---- MODULE Spec2Model ----
(***************************************************************************)
(* Model of generator.py: the Anki deck generator.  A text is a sequence   *)
(* of code points; the Python string methods and the two regular           *)
(* expressions the program uses are operators on such sequences.           *)
(***************************************************************************)
EXTENDS Integers, Sequences, FiniteSets, TLC

(***************************************************************************)
(* Bounds of the model.                                                    *)
(***************************************************************************)
MaxLines == 3
MaxTextLen == 6

(***************************************************************************)
(* Texts.  A text is the sequence of the code points of its characters, so *)
(* that it can hold every character the str methods can give.  The         *)
(* characters of the model are U+0000 to U+00FF and the three characters   *)
(* outside that range that the case mappings of those lead to: U+0178,     *)
(* U+039C and U+03BC.                                                      *)
(***************************************************************************)
Alphabet == (0..255) \cup {376, 924, 956}

\* the printable ASCII characters, U+0020 to U+005F and U+0061 to U+007E
Printable == " !\"#$%&'()*+,-./0123456789:;<=>?@ABCDEFGHIJKLMNOPQRSTUVWXYZ[\\]^_"
PrintableLow == "abcdefghijklmnopqrstuvwxyz{|}~"

\* the code point of a printable ASCII character
CodeOf(c) ==
    IF \E k \in 1..Len(Printable) : SubSeq(Printable, k, k) = c
    THEN 31 + (CHOOSE k \in 1..Len(Printable) : SubSeq(Printable, k, k) = c)
    ELSE 96 + (CHOOSE k \in 1..Len(PrintableLow) : SubSeq(PrintableLow, k, k) = c)

\* the text of a string literal of printable ASCII characters
RECURSIVE TextFrom(_, _)
TextFrom(str, i) ==
    IF i > Len(str) THEN <<>> ELSE <<CodeOf(SubSeq(str, i, i))>> \o TextFrom(str, i + 1)

Text(str) == TextFrom(str, 1)

LParen == CodeOf("(")
RParen == CodeOf(")")
Space == CodeOf(" ")
Newline == 10

(***************************************************************************)
(* Python string primitives, as the str methods have them on Alphabet.     *)
(***************************************************************************)
\* the capitals whose small letter is 32 further on: A-Z, U+00C0 to U+00DE
\* without the multiplication sign
UpperAlphabet == (65..90) \cup (192..214) \cup (216..222)
\* and their small letters: a-z, U+00E0 to U+00FE without the division sign
LowerAlphabet == (97..122) \cup (224..246) \cup (248..254)
\* lower-case characters without a capital 32 before them: the ordinal
\* indicators, the micro sign, the sharp s, y with diaeresis, Greek mu
UnpairedLower == {170, 186, 181, 223, 255, 956}
\* the characters for which str.isspace() holds: \t \n \v \f \r, U+001C to
\* U+001F, the space, U+0085, U+00A0
Whitespace == {9, 10, 11, 12, 13, 28, 29, 30, 31, 32, 133, 160}

CharAt(s, i) == s[i]

IsUpper(c) == c \in UpperAlphabet \cup {376, 924}
IsLower(c) == c \in LowerAlphabet \cup UnpairedLower
IsCased(c) == IsUpper(c) \/ IsLower(c)

LowerChar(c) ==
    IF c \in UpperAlphabet THEN c + 32
    ELSE IF c = 376 THEN 255
    ELSE IF c = 924 THEN 956
    ELSE c

\* the title case of a character, which str.capitalize() gives the first
\* one: a text, of two characters for the sharp s
UpperChar(c) ==
    IF c \in LowerAlphabet THEN <<c - 32>>
    ELSE IF c = 223 THEN Text("Ss")
    ELSE IF c = 255 THEN <<376>>
    ELSE IF c \in {181, 956} THEN <<924>>
    ELSE <<c>>

RECURSIVE LowerFrom(_, _)
LowerFrom(s, i) ==
    IF i > Len(s) THEN <<>> ELSE <<LowerChar(CharAt(s, i))>> \o LowerFrom(s, i + 1)

\* str.lower()
lower(s) == LowerFrom(s, 1)

\* str.capitalize(): first character title-cased, the rest lower-cased
capitalize(s) ==
    IF Len(s) = 0 THEN <<>> ELSE UpperChar(CharAt(s, 1)) \o LowerFrom(s, 2)

\* str.strip(): drop leading and trailing whitespace
strip(s) ==
    LET keep == {i \in 1..Len(s) : CharAt(s, i) \notin Whitespace}
    IN  IF keep = {} THEN <<>>
        ELSE LET first == CHOOSE i \in keep : \A j \in keep : i <= j
                 last  == CHOOSE i \in keep : \A j \in keep : j <= i
             IN  SubSeq(s, first, last)

\* str.count(c) for a single character c
count(s, c) == Cardinality({i \in 1..Len(s) : CharAt(s, i) = c})

\* pat occurs in s at index i, wholly before index to (exclusive)
OccursAt(s, pat, i, to) ==
    /\ i >= 1
    /\ i + Len(pat) <= to
    /\ SubSeq(s, i, i + Len(pat) - 1) = pat

\* pat occurs in s somewhere inside [from, to)
OccursIn(s, pat, from, to) == \E i \in from..(to - 1) : OccursAt(s, pat, i, to)

\* the Python test `pat in s`
contains(s, pat) == OccursIn(s, pat, 1, Len(s) + 1)

\* str.istitle(): an upper-case letter only after an uncased character, a
\* lower-case letter only after a cased one, and at least one cased character
istitle(s) ==
    /\ \E i \in 1..Len(s) : IsCased(CharAt(s, i))
    /\ \A i \in 1..Len(s) :
          LET prevCased == i > 1 /\ IsCased(CharAt(s, i - 1))
          IN  /\ IsUpper(CharAt(s, i)) => ~prevCased
              /\ IsLower(CharAt(s, i)) => prevCased

\* first index >= i that holds character c, or Len(s) + 1 when there is none
RECURSIVE IndexFrom(_, _, _)
IndexFrom(s, c, i) ==
    IF i > Len(s) THEN Len(s) + 1
    ELSE IF CharAt(s, i) = c THEN i
    ELSE IndexFrom(s, c, i + 1)

\* result.split('(')[0]: the text before the first '('
SplitHead(s) == SubSeq(s, 1, IndexFrom(s, LParen, 1) - 1)

(***************************************************************************)
(* re.findall(r'\(([^)]+)\)', s): scanning left to right, a match starts   *)
(* at a '(' and runs to the first ')' after it, with at least one          *)
(* character in between; the captured group is the text in between.       *)
(***************************************************************************)
RECURSIVE FindallFrom(_, _)
FindallFrom(s, i) ==
    IF i > Len(s) THEN <<>>
    ELSE IF CharAt(s, i) # LParen THEN FindallFrom(s, i + 1)
    ELSE LET j == IndexFrom(s, RParen, i + 1)
         IN  IF j > Len(s) \/ j = i + 1
             THEN FindallFrom(s, i + 1)
             ELSE <<SubSeq(s, i + 1, j - 1)>> \o FindallFrom(s, j + 1)

findall(s) == FindallFrom(s, 1)

(***************************************************************************)
(* re.sub(r"vertaalt naar.*\n*.*voorbeeldzin.*", "", s).  '.' does not     *)
(* match a newline, so a match that starts at p runs to the end of the     *)
(* line after the newline block when that line holds "voorbeeldzin", else  *)
(* to the end of the first line when the rest of it holds "voorbeeldzin".  *)
(***************************************************************************)
Commentary1 == Text("vertaalt naar")
Commentary2 == Text("voorbeeldzin")

\* first index >= i that is not a newline, or Len(s) + 1
RECURSIVE SkipNewlines(_, _)
SkipNewlines(s, i) ==
    IF i > Len(s) THEN Len(s) + 1
    ELSE IF CharAt(s, i) # Newline THEN i
    ELSE SkipNewlines(s, i + 1)

\* index just past the match that starts at p, or 0 when none starts there
CommentaryEnd(s, p) ==
    IF ~OccursAt(s, Commentary1, p, Len(s) + 1) THEN 0
    ELSE LET q  == p + Len(Commentary1)
             e1 == IndexFrom(s, Newline, q)
             n2 == SkipNewlines(s, e1)
             e2 == IndexFrom(s, Newline, n2)
         IN  IF OccursIn(s, Commentary2, n2, e2) THEN e2
             ELSE IF OccursIn(s, Commentary2, q, e1) THEN e1
             ELSE 0

RECURSIVE StripCommentaryFrom(_, _)
StripCommentaryFrom(s, p) ==
    IF p > Len(s) THEN <<>>
    ELSE LET e == CommentaryEnd(s, p)
         IN  IF e = 0 THEN <<CharAt(s, p)>> \o StripCommentaryFrom(s, p + 1)
             ELSE StripCommentaryFrom(s, e)

StripCommentary(s) == StripCommentaryFrom(s, 1)

(***************************************************************************)
(* is_valid_format                                                         *)
(***************************************************************************)
\* variant: only the parentheses are counted
is_valid_format_CountOnly(result) ==
    count(result, LParen) = 2 /\ count(result, RParen) = 2

\* variant: without the count of the parentheses
is_valid_format_NoCount(result) == Len(findall(result)) = 2

is_valid_format(result) ==
    IF count(result, LParen) # 2 \/ count(result, RParen) # 2 THEN FALSE
    ELSE Len(findall(result)) = 2

(***************************************************************************)
(* parse_generated_response: <<source_sentence, target_sentence,           *)
(* target_word>>.  The tuple unpacking of findall's result raises unless   *)
(* there are exactly two matches; the handler returns the sentinel triple. *)
(***************************************************************************)
ParsingErrorText == Text("Parsing error")
ParsingError == <<ParsingErrorText, ParsingErrorText, ParsingErrorText>>

\* the articles the rule looks for, and the one it puts in front
De == Text("de")
Het == Text("het")
DeArticle == Text("De ")

\* variant: "de" and "het" are looked for as whole words
NeedsArticle_WholeWords(target_word) ==
    LET lw == <<Space>> \o lower(target_word) \o <<Space>>
    IN  /\ ~istitle(target_word)
        /\ ~contains(lw, <<Space>> \o De \o <<Space>>)
        /\ ~contains(lw, <<Space>> \o Het \o <<Space>>)

\* variant: without the title-case test
NeedsArticle_NoTitleTest(target_word) ==
    /\ ~contains(lower(target_word), De)
    /\ ~contains(lower(target_word), Het)

\* the article rule
NeedsArticle(target_word) ==
    /\ ~istitle(target_word)
    /\ ~contains(lower(target_word), De)
    /\ ~contains(lower(target_word), Het)

WithArticle(target_word) ==
    IF NeedsArticle(target_word) THEN DeArticle \o target_word ELSE target_word

\* variant: the target sentence is returned as extracted, not stripped
parse_generated_response_NoStrip(result) ==
    LET matches == findall(result)
    IN  IF Len(matches) # 2 THEN ParsingError
        ELSE <<strip(StripCommentary(strip(SplitHead(result)))),
               matches[1], strip(WithArticle(matches[2]))>>

parse_generated_response(result) ==
    LET matches == findall(result)
    IN  IF Len(matches) # 2 THEN ParsingError
        ELSE LET source_sentence == strip(StripCommentary(strip(SplitHead(result))))
                 target_sentence == matches[1]
                 target_word     == WithArticle(matches[2])
             IN  <<source_sentence, strip(target_sentence), strip(target_word)>>

(***************************************************************************)
(* The program state.                                                      *)
(*   pc          position of the single thread of main                     *)
(*   api_key     the credential main was started with                      *)
(*   input_file  the input file: whether it is there, its lines, and how   *)
(*               many of them the program gets before the read fails       *)
(*   items       the list parse_input_file returned                        *)
(*   idx         number of items create_anki_deck has finished             *)
(*   attempt     loop variable of get_word_translation_and_example         *)
(*   log         what happened for the current item: model calls, their    *)
(*               outcomes and the sleeps, in order                         *)
(*   outstanding number of model requests in flight                        *)
(*   translation the string get_word_translation_and_example returned      *)
(*   outcomes    per finished item, where its translation came from        *)
(*   deck        the notes of the deck, each the list of its four fields   *)
(*   written     whether the output package file was written               *)
(*   package     the notes in the written package                          *)
(*   exit_code   the exit status of the process, NoExit while it runs      *)
(* for the text functions on their own:                                    *)
(*   txt, txt_pc, txt_valid, txt_parsed                                    *)
(* and, for a run that is repeated against a stubbed model client:         *)
(*   deck_id     the id random.randint gave the deck of this run           *)
(*   stub        the answers of the stubbed client seen so far, one for    *)
(*               each position in the item list and attempt number         *)
(*   run         1 in the first run, 2 in the repeated one                 *)
(*   first_run   how the first run ended, and the deck it made             *)
(***************************************************************************)
VARIABLES pc, api_key, input_file, items, idx, attempt, log, outstanding,
          translation, outcomes, deck, written, package, exit_code,
          txt, txt_pc, txt_valid, txt_parsed,
          deck_id, stub, run, first_run

run_vars == <<pc, api_key, input_file, items, idx, attempt, log, outstanding,
              translation, outcomes, deck, written, package, exit_code>>
txt_vars == <<txt, txt_pc, txt_valid, txt_parsed>>
det_vars == <<deck_id, stub, run, first_run>>
vars == <<run_vars, txt_vars, det_vars>>

Retries == 3
DefaultApiKey == "openai_api_key"
NotAvailable == Text("Translation and example not available.")
NoExit == 0 - 1

\* credentials a run may be started with
ApiKeys == {DefaultApiKey, "sk-test"}

\* lines an input file may hold (without their line terminator): an empty
\* one, one of a space and a vertical tab, one of a space, the micro sign
\* U+00B5, "Hola" and the separator U+001C, and the words of the sentinel
FileLines == {<<>>, <<32, 11>>, <<32, 181>> \o Text("Hola") \o <<28>>,
              Text(" translation and example not available. ")}

RECURSIVE SeqsUpTo(_, _)
SeqsUpTo(S, n) ==
    IF n = 0 THEN {<<>>}
    ELSE LET shorter == SeqsUpTo(S, n - 1)
         IN  shorter \cup {Append(q, x) : q \in {r \in shorter : Len(r) = n - 1}, x \in S}

\* the file that is not there
NoFile == [exists |-> FALSE, lines |-> <<>>, read |-> 0]

\* a file that is there gives all its lines, or only the first `read` of them
\* when opening or decoding it raises before the end
FilesOf(lineSet, n) ==
    UNION {{[exists |-> TRUE, lines |-> ls, read |-> k] : k \in 0..Len(ls)} :
              ls \in SeqsUpTo(lineSet, n)}

InputFiles == {NoFile} \cup FilesOf(FileLines, MaxLines)

\* message contents the model endpoint may answer with
ValidText1 == Text("El perro corre. (The dog runs.) (El perro)")
\* accepted, with only whitespace in both groups and around them
ValidText2 == <<31>> \o Text("( ) ( )") \o <<11, 10>>
InvalidText == Text("Hola (Hello")
ModelTexts == {ValidText1, ValidText2, InvalidText}

Event(ev, item, n) == [ev |-> ev, item |-> item, n |-> n]

RECURSIVE Pow2(_)
Pow2(n) == IF n = 0 THEN 1 ELSE 2 * Pow2(n - 1)

(***************************************************************************)
(* check_api_key                                                           *)
(***************************************************************************)
\* variant: the test is for a missing key
IsDefaultKey_Empty(key) == key = ""

\* `api_key == 'openai_api_key'`
IsDefaultKey(key) == key = DefaultApiKey

CheckApiKey ==
    /\ pc = "check_api_key"
    /\ IF IsDefaultKey(api_key)
       THEN pc' = "exited" /\ exit_code' = 1
       ELSE pc' = "parse_input_file" /\ UNCHANGED exit_code
    /\ UNCHANGED <<api_key, input_file, items, idx, attempt, log, outstanding,
                   translation, outcomes, deck, written, package, txt_vars,
                   det_vars>>

(***************************************************************************)
(* parse_input_file: the stripped, capitalized non-empty lines, in order.  *)
(* An error of open() or of the read is caught: the function returns the   *)
(* items it has appended so far, none when the file cannot be opened.      *)
(***************************************************************************)
\* variant: no `if line:` test
KeepLine_All(line) == TRUE

\* `if line:`
KeepLine(line) == line # <<>>

RECURSIVE ReadLines(_, _)
ReadLines(lines, i) ==
    IF i > Len(lines) THEN <<>>
    ELSE LET line == capitalize(strip(lines[i]))
         IN  IF KeepLine(line) THEN <<line>> \o ReadLines(lines, i + 1)
             ELSE ReadLines(lines, i + 1)

\* the lines `for line in file` gives before it ends or raises
LinesRead(file) == SubSeq(file.lines, 1, file.read)

parse_input_file(file) ==
    IF file.exists THEN ReadLines(LinesRead(file), 1) ELSE <<>>

\* variant: the error of open() is not caught and ends the run
ParseInputFile_Raises ==
    /\ pc = "parse_input_file"
    /\ IF input_file.exists
       THEN /\ items' = parse_input_file(input_file)
            /\ pc' = "next_item"
            /\ UNCHANGED exit_code
       ELSE /\ pc' = "aborted"
            /\ exit_code' = 1
            /\ UNCHANGED items
    /\ UNCHANGED <<api_key, input_file, idx, attempt, log, outstanding,
                   translation, outcomes, deck, written, package, txt_vars,
                   det_vars>>

ParseInputFile ==
    /\ pc = "parse_input_file"
    /\ items' = parse_input_file(input_file)
    /\ pc' = "next_item"
    /\ UNCHANGED <<api_key, input_file, idx, attempt, log, outstanding,
                   translation, outcomes, deck, written, package, exit_code,
                   txt_vars, det_vars>>

(***************************************************************************)
(* create_anki_deck: the loop over the items.                              *)
(***************************************************************************)
\* the loop takes up the next item: get_word_translation_and_example starts
NextItem ==
    /\ pc = "next_item"
    /\ idx < Len(items)
    /\ attempt' = 0
    /\ log' = <<>>
    /\ pc' = "attempt"
    /\ UNCHANGED <<api_key, input_file, items, idx, outstanding, translation,
                   outcomes, deck, written, package, exit_code, txt_vars,
                   det_vars>>

\* the loop is over: create_anki_deck returns the deck
ReturnDeck ==
    /\ pc = "next_item"
    /\ idx = Len(items)
    /\ pc' = "write"
    /\ UNCHANGED <<api_key, input_file, items, idx, attempt, log, outstanding,
                   translation, outcomes, deck, written, package, exit_code,
                   txt_vars, det_vars>>

(***************************************************************************)
(* get_word_translation_and_example: one pass of `for attempt in           *)
(* range(retries)` sends one request; the call returns a text or raises.   *)
(***************************************************************************)
SendRequest ==
    /\ pc = "attempt"
    /\ attempt < Retries
    /\ outstanding' = outstanding + 1
    /\ log' = Append(log, Event("call", idx + 1, attempt))
    /\ pc' = "call"
    /\ UNCHANGED <<api_key, input_file, items, idx, attempt, translation,
                   outcomes, deck, written, package, exit_code, txt_vars,
                   det_vars>>

\* variant: the function raises when the loop runs out
LoopExhausted_Raises ==
    /\ pc = "attempt"
    /\ attempt >= Retries
    /\ pc' = "aborted"
    /\ exit_code' = 1
    /\ UNCHANGED <<api_key, input_file, items, idx, attempt, log, outstanding,
                   translation, outcomes, deck, written, package, txt_vars,
                   det_vars>>

\* the loop ran out without a return: the statement after the loop
LoopExhausted ==
    /\ pc = "attempt"
    /\ attempt >= Retries
    /\ translation' = NotAvailable
    /\ outcomes' = Append(outcomes, "exhausted_after_loop")
    /\ pc' = "add_note"
    /\ UNCHANGED <<api_key, input_file, items, idx, attempt, log, outstanding,
                   deck, written, package, exit_code, txt_vars,
                   det_vars>>

\* the model answered with message content `content`
TextReceived(content) ==
    /\ pc = "call"
    /\ outstanding' = outstanding - 1
    /\ LET result == strip(content)
       IN  IF is_valid_format(result)
           THEN /\ translation' = result
                /\ log' = Append(log, Event("valid", idx + 1, attempt))
                /\ outcomes' = Append(outcomes, "validated")
                /\ pc' = "add_note"
                /\ UNCHANGED attempt
           ELSE /\ log' = Append(log, Event("invalid_format", idx + 1, attempt))
                /\ attempt' = attempt + 1
                /\ pc' = "attempt"
                /\ UNCHANGED <<translation, outcomes>>
    /\ UNCHANGED <<api_key, input_file, items, idx, deck, written, package,
                   exit_code, txt_vars>>

\* variant: the response of the last attempt is returned as it is
ReceiveText_KeepsLast(content) ==
    /\ pc = "call"
    /\ outstanding' = outstanding - 1
    /\ LET result == strip(content)
       IN  IF is_valid_format(result) \/ attempt = Retries - 1
           THEN /\ translation' = result
                /\ log' = Append(log, Event(IF is_valid_format(result)
                                            THEN "valid" ELSE "invalid_format",
                                            idx + 1, attempt))
                /\ outcomes' = Append(outcomes, "validated")
                /\ pc' = "add_note"
                /\ UNCHANGED attempt
           ELSE /\ log' = Append(log, Event("invalid_format", idx + 1, attempt))
                /\ attempt' = attempt + 1
                /\ pc' = "attempt"
                /\ UNCHANGED <<translation, outcomes>>
    /\ UNCHANGED <<api_key, input_file, items, idx, deck, written, package,
                   exit_code, txt_vars,
                   det_vars>>

\* variant: an invalid response backs off like a rate limit
ReceiveText_Backoff(content) ==
    /\ pc = "call"
    /\ outstanding' = outstanding - 1
    /\ LET result == strip(content)
       IN  IF is_valid_format(result)
           THEN /\ translation' = result
                /\ log' = Append(log, Event("valid", idx + 1, attempt))
                /\ outcomes' = Append(outcomes, "validated")
                /\ pc' = "add_note"
                /\ UNCHANGED attempt
           ELSE /\ log' = log \o <<Event("invalid_format", idx + 1, attempt),
                                   Event("sleep", idx + 1, Pow2(attempt))>>
                /\ attempt' = attempt + 1
                /\ pc' = "attempt"
                /\ UNCHANGED <<translation, outcomes>>
    /\ UNCHANGED <<api_key, input_file, items, idx, deck, written, package,
                   exit_code, txt_vars,
                   det_vars>>

\* the answer of the model endpoint, which is free in what it answers
ReceiveText(content) == TextReceived(content) /\ UNCHANGED det_vars

\* exceptions the try block may raise: those of the request, and the
\* AttributeError of `.strip()` when the content of the message is None
Exceptions == {"RateLimitError", "APIConnectionError", "AuthenticationError",
               "AttributeError"}

\* variant: no handler at all
Handles_None(exc) == FALSE

\* variant: a bare `except:`
Handles_Any(exc) == TRUE

\* `except RateLimitError:` is the only handler of the try statement
Handles(exc) == exc = "RateLimitError"

\* variant: the test is `attempt < retries`
SleepsBeforeRetry_EveryAttempt(a) == a < Retries

\* `if attempt < retries - 1` of the handler
SleepsBeforeRetry(a) == a < Retries - 1

\* variant: the sleep grows by the number of sleeps the item has had
SleepTime_BySleeps(a) == Pow2(Len(SelectSeq(log, LAMBDA e : e.ev = "sleep")))

\* the argument of time.sleep
SleepTime(a) == Pow2(a)

\* The request raised exc.  A RateLimitError is handled: sleep and go round
\* the loop again, or return the sentinel on the last attempt.  Any other
\* exception leaves the function, create_anki_deck and main: the process ends
\* with a traceback and status 1.
ExceptionRaised(exc) ==
    /\ pc = "call"
    /\ outstanding' = outstanding - 1
    /\ IF Handles(exc)
       THEN IF SleepsBeforeRetry(attempt)
            THEN /\ log' = log \o <<Event(exc, idx + 1, attempt),
                                    Event("sleep", idx + 1, SleepTime(attempt))>>
                 /\ attempt' = attempt + 1
                 /\ pc' = "attempt"
                 /\ UNCHANGED <<translation, outcomes, exit_code>>
            ELSE /\ log' = Append(log, Event(exc, idx + 1, attempt))
                 /\ translation' = NotAvailable
                 /\ outcomes' = Append(outcomes, "exhausted_rate_limit")
                 /\ pc' = "add_note"
                 /\ UNCHANGED <<attempt, exit_code>>
       ELSE /\ log' = Append(log, Event(exc, idx + 1, attempt))
            /\ pc' = "aborted"
            /\ exit_code' = 1
            /\ UNCHANGED <<attempt, translation, outcomes>>
    /\ UNCHANGED <<api_key, input_file, items, idx, deck, written, package,
                   txt_vars>>

ReceiveException(exc) == ExceptionRaised(exc) /\ UNCHANGED det_vars

(***************************************************************************)
(* create_anki_deck: the rest of the loop body, from the parse of the      *)
(* returned string to deck.add_note.                                       *)
(***************************************************************************)
\* variant: a string that cannot be parsed is used as the target word
NoteFields_KeepsUnparsed(item, result) ==
    LET parsed == parse_generated_response(result)
    IN  IF parsed = ParsingError
        THEN <<item, result, <<>>, <<>>>>
        ELSE <<item, parsed[3], parsed[1], parsed[2]>>

\* variant: the note is made without the source word
NoteFields_NoItem(item, result) ==
    LET parsed == parse_generated_response(result)
    IN  <<parsed[3], parsed[1], parsed[2]>>

\* the fields of the note
NoteFields(item, result) ==
    LET parsed == parse_generated_response(result)
    IN  <<item, parsed[3], parsed[1], parsed[2]>>

\* variant: the note is put in front
add_note_Front(d, fields) == <<fields>> \o d

\* variant: where the note goes depends on the random id of the deck
add_note_ById(d, fields) == IF deck_id = 1 THEN Append(d, fields) ELSE <<fields>> \o d

\* deck.add_note
add_note(d, fields) == Append(d, fields)

AddNote ==
    /\ pc = "add_note"
    /\ deck' = add_note(deck, NoteFields(items[idx + 1], translation))
    /\ idx' = idx + 1
    /\ pc' = "next_item"
    /\ UNCHANGED <<api_key, input_file, items, attempt, log, outstanding,
                   translation, outcomes, written, package, exit_code,
                   txt_vars, det_vars>>

(***************************************************************************)
(* main: genanki.Package(deck).write_to_file(output_file), then the end.   *)
(***************************************************************************)
WritePackage ==
    /\ pc = "write"
    /\ written' = TRUE
    /\ package' = deck
    /\ pc' = "done"
    /\ exit_code' = 0
    /\ UNCHANGED <<api_key, input_file, items, idx, attempt, log, outstanding,
                   translation, outcomes, deck, txt_vars,
                   det_vars>>

TxtIdle ==
    /\ txt = <<>>
    /\ txt_pc = "idle"
    /\ txt_valid = FALSE
    /\ txt_parsed = <<>>

NoRun == [pc |-> "none", deck |-> <<>>, deck_id |-> 0]

\* a single run against the model endpoint: the stub plays no part
DetIdle ==
    /\ deck_id = 1
    /\ stub = {}
    /\ run = 1
    /\ first_run = NoRun

Init ==
    /\ pc = "check_api_key"
    /\ api_key \in ApiKeys
    /\ input_file \in InputFiles
    /\ items = <<>>
    /\ idx = 0
    /\ attempt = 0
    /\ log = <<>>
    /\ outstanding = 0
    /\ translation = <<>>
    /\ outcomes = <<>>
    /\ deck = <<>>
    /\ written = FALSE
    /\ package = <<>>
    /\ exit_code = NoExit
    /\ TxtIdle
    /\ DetIdle

Next ==
    \/ CheckApiKey
    \/ ParseInputFile
    \/ NextItem
    \/ ReturnDeck
    \/ SendRequest
    \/ LoopExhausted
    \/ \E content \in ModelTexts : ReceiveText(content)
    \/ \E exc \in Exceptions : ReceiveException(exc)
    \/ AddNote
    \/ WritePackage

Spec == Init /\ [][Next]_vars

(***************************************************************************)
(* The text functions on their own: is_valid_format and                    *)
(* parse_generated_response applied to a text.                             *)
(***************************************************************************)
TextAlphabet == {LParen, RParen, Space, CodeOf("a")}

RECURSIVE StringsUpTo(_)
StringsUpTo(n) ==
    IF n = 0 THEN {<<>>}
    ELSE LET shorter == StringsUpTo(n - 1)
         IN  shorter \cup {Append(s, c) : s \in {r \in shorter : Len(r) = n - 1},
                                         c \in TextAlphabet}

\* texts of the shape the prompt asks for, put together from parts
Heads == {<<>>, Text("El perro corre. "), Text("Zin vertaalt naar x, de voorbeeldzin: ")}
FirstGroups == {Text("The dog runs."), Text(" ")}
SecondGroups == {Text("El perro"), Text("Huis"), Text("huis"), Text("Het huis"),
                 Text("modelo"), Text(" "), Text("huis") \o <<29>>,
                 Text("Casa Blanca"), Text(" tafel"),
                 <<201, 233>> \o Text("n"), Text("D") \o <<201>>, <<255>> \o Text("s")}
ShapedTexts ==
    {h \o <<LParen>> \o g1 \o Text(") (") \o g2 \o <<RParen>> :
        h \in Heads, g1 \in FirstGroups, g2 \in SecondGroups}

\* other texts: the sentinel, the examples of the validator, stray parentheses
OtherTexts == {NotAvailable, Text("Hola (Hello) (Hola)"), Text("Hola (Hello"),
               Text("Hola (Hello) (Hola) (extra)"), Text("a (b) (c) )"),
               Text("(a)(b))"), Text("a () (b)"), Text("((a) b)"),
               Text("Parsing error (Parsing error) (Parsing error)"),
               <<11>> \o Text("(a) (b)"),
               Text("x") \o <<160>> \o Text("(y") \o <<160>> \o Text(") (huis")
                   \o <<133>> \o Text(")")}

TextInputs == StringsUpTo(MaxTextLen) \cup ShapedTexts \cup OtherTexts

RunIdle ==
    /\ pc = "idle"
    /\ api_key = "sk-test"
    /\ input_file = NoFile
    /\ items = <<>>
    /\ idx = 0
    /\ attempt = 0
    /\ log = <<>>
    /\ outstanding = 0
    /\ translation = <<>>
    /\ outcomes = <<>>
    /\ deck = <<>>
    /\ written = FALSE
    /\ package = <<>>
    /\ exit_code = NoExit

TextInit ==
    /\ RunIdle
    /\ DetIdle
    /\ txt \in TextInputs
    /\ txt_pc = "input"
    /\ txt_valid = FALSE
    /\ txt_parsed = <<>>

Validate ==
    /\ txt_pc = "input"
    /\ txt_valid' = is_valid_format(txt)
    /\ txt_pc' = "validated"
    /\ UNCHANGED <<txt, txt_parsed, run_vars, det_vars>>

Parse ==
    /\ txt_pc = "validated"
    /\ txt_parsed' = parse_generated_response(txt)
    /\ txt_pc' = "parsed"
    /\ UNCHANGED <<txt, txt_valid, run_vars, det_vars>>

TextNext == Validate \/ Parse

TextSpec == TextInit /\ [][TextNext]_vars

(***************************************************************************)
(* Vocabulary of the properties.                                           *)
(***************************************************************************)
\* the texts the specification names in its examples
TwoGroupsText == Text("Hola (Hello) (Hola)")
ThreeGroupsText == Text("Hola (Hello) (Hola) (extra)")
ParsingErrorLookalike == Text("Parsing error (Parsing error) (Parsing error)")
DeParsingError == Text("De Parsing error")
ElPerroCorre == Text("El perro corre.")
TheDogRuns == Text("The dog runs.")
ElPerro == Text("El perro")
DeElPerro == Text("De El perro")
Huis == Text("Huis")
DeHuis == Text("De Huis")
HuisLower == Text("huis")
DeHuisLower == Text("De huis")
HetHuis == Text("Het huis")
Modelo == Text("modelo")
DeModelo == Text("De modelo")

Failures == {"RateLimitError", "invalid_format"}

CallsIn(l) == SelectSeq(l, LAMBDA e : e.ev = "call")
SleepsIn(l) == SelectSeq(l, LAMBDA e : e.ev = "sleep")
ResultsIn(l) == SelectSeq(l, LAMBDA e : e.ev \notin {"call", "sleep"})
FailuresIn(l) == SelectSeq(l, LAMBDA e : e.ev \in Failures)

\* the kinds of the events, and the sleep durations, in order
KindsOf(l) == [i \in 1..Len(l) |-> l[i].ev]
SleepTimes(l) == [i \in 1..Len(SleepsIn(l)) |-> SleepsIn(l)[i].n]

\* every request of the current item failed with RateLimitError
AllRateLimited(l) ==
    /\ Len(ResultsIn(l)) > 0
    /\ \A i \in 1..Len(ResultsIn(l)) : ResultsIn(l)[i].ev = "RateLimitError"

\* the retry budget of the current item is used up
BudgetUsed(l) == Len(FailuresIn(l)) = 3

\* a request of the current item raised something else than RateLimitError
HasError(l) ==
    \E i \in 1..Len(l) : l[i].ev \in {"APIConnectionError", "AuthenticationError"}

\* a line with a character that is not whitespace
NonBlank(line) == \E i \in 1..Len(line) : CharAt(line, i) \notin Whitespace
NonBlankCount(file) == Cardinality({i \in 1..Len(file.lines) : NonBlank(file.lines[i])})
NonBlankRead(file) == Cardinality({i \in 1..file.read : NonBlank(file.lines[i])})
ReadFails(file) == file.exists /\ file.read < Len(file.lines)

\* The parentheses of a text with two '(' and two ')' that form two groups
\* "(x)...(y)" with x and y not empty.
Open1(s) == IndexFrom(s, LParen, 1)
Close1(s) == IndexFrom(s, RParen, 1)
Open2(s) == IndexFrom(s, LParen, Open1(s) + 1)
Close2(s) == IndexFrom(s, RParen, Close1(s) + 1)
TwoGroups(s) ==
    /\ count(s, LParen) = 2
    /\ count(s, RParen) = 2
    /\ Open1(s) + 1 < Close1(s)
    /\ Close1(s) < Open2(s)
    /\ Open2(s) + 1 < Close2(s)
Group1(s) == SubSeq(s, Open1(s) + 1, Close1(s) - 1)
Group2(s) == SubSeq(s, Open2(s) + 1, Close2(s) - 1)
BeforeGroups(s) == SubSeq(s, 1, Open1(s) - 1)

\* the article rule, spelled out
ArticleRule(w) ==
    IF ~istitle(w) /\ ~contains(lower(w), De) /\ ~contains(lower(w), Het)
    THEN DeArticle \o w
    ELSE w

(***************************************************************************)
(* C1 (as stated): when every request of an item fails with                *)
(* RateLimitError, the function returns the sentinel after exactly 3       *)
(* requests and sleeps of 1, 2 and 4.                                      *)
(***************************************************************************)
C1_Stated ==
    (pc = "add_note" /\ AllRateLimited(log)) =>
        /\ Len(CallsIn(log)) = 3
        /\ SleepTimes(log) = <<1, 2, 4>>
        /\ translation = NotAvailable

(***************************************************************************)
(* C1 (amended): when every request of an item fails with RateLimitError,  *)
(* exactly 3 requests are made, each failure but the last is followed by   *)
(* a sleep, of 1 and then 2, no sleep follows the third failure, and then  *)
(* the sentinel is returned.                                               *)
(***************************************************************************)
C1_RateLimitBackoff ==
    (pc = "add_note" /\ AllRateLimited(log)) =>
        /\ KindsOf(log) = <<"call", "RateLimitError", "sleep",
                            "call", "RateLimitError", "sleep",
                            "call", "RateLimitError">>
        /\ SleepTimes(log) = <<1, 2>>
        /\ translation = NotAvailable

C1_Witness ==
    /\ pc = "add_note"
    /\ AllRateLimited(log)
    /\ Len(CallsIn(log)) = 3
    /\ translation = NotAvailable

(***************************************************************************)
(* C2: once three requests of an item have failed, by any mix of invalid   *)
(* format and rate limit, the function returns exactly the sentinel, the   *)
(* note of the item is added and the loop goes on with the next item; the  *)
(* run is never ended by it.                                               *)
(***************************************************************************)
C2_ExhaustionIsLocal ==
    [][BudgetUsed(log) =>
         /\ pc' \notin {"aborted", "exited"}
         /\ pc = "attempt" =>
               /\ pc' = "add_note"
               /\ translation' = NotAvailable
         /\ pc = "add_note" =>
               /\ translation = NotAvailable
               /\ Len(deck') = Len(deck) + 1
               /\ pc' = "next_item"
         /\ (pc = "next_item" /\ idx < Len(items)) =>
               /\ pc' = "attempt"
               /\ idx' = idx
               /\ deck' = deck]_vars

\* a request for the next item is in flight after an item that used up its
\* budget
C2_Witness ==
    /\ pc = "call"
    /\ idx >= 1
    /\ outcomes[idx] \in {"exhausted_after_loop", "exhausted_rate_limit"}
    /\ Len(deck) = idx

(***************************************************************************)
(* C3: a request that raises anything but RateLimitError ends the run at   *)
(* once: it is the last event, no sleep or request follows for this or a   *)
(* later item, and the package is not written.                             *)
(***************************************************************************)
C3_FailFast ==
    /\ [](HasError(log) =>
            /\ pc = "aborted"
            /\ log[Len(log)].ev \in {"APIConnectionError", "AuthenticationError"}
            /\ outstanding = 0
            /\ Len(deck) = idx
            /\ ~written)
    /\ [][pc = "aborted" => UNCHANGED vars]_vars

\* the error hit a retry of the second item
C3_Witness ==
    /\ pc = "aborted"
    /\ HasError(log)
    /\ idx >= 1
    /\ attempt >= 1
    /\ idx + 1 < Len(items)
    /\ ~written

(***************************************************************************)
(* C4 (as stated): a run that completes has written a package with exactly *)
(* one note per non-blank line of the input file, whatever happened to     *)
(* each item.                                                              *)
(***************************************************************************)
C4_Stated ==
    pc = "done" =>
        /\ written
        /\ Len(package) = NonBlankCount(input_file)

(***************************************************************************)
(* C4 (amended): a run that completes on an input file that was read to    *)
(* its end has written a package with exactly one note per non-blank line  *)
(* of the file, whatever happened to each item; in every run that          *)
(* completes the package has exactly one note per non-blank line that was  *)
(* read, so the lines a failed read did not reach have no note.            *)
(***************************************************************************)
C4_OneCardPerLine ==
    pc = "done" =>
        /\ written
        /\ Len(package) = NonBlankRead(input_file)
        /\ ~ReadFails(input_file) => Len(package) = NonBlankCount(input_file)

\* a blank line was skipped, one item was validated and one used up its budget
C4_Witness ==
    /\ pc = "done"
    /\ Len(package) = 2
    /\ Len(input_file.lines) = 3
    /\ ~ReadFails(input_file)
    /\ \E i, j \in 1..Len(outcomes) :
          outcomes[i] = "validated" /\ outcomes[j] # "validated"

(***************************************************************************)
(* C5: is_valid_format accepts a text exactly when it has two '(' and two  *)
(* ')' and they form two groups "(x)" and "(y)", one after the other, each *)
(* with something inside.                                                  *)
(***************************************************************************)
C5_ValidatorAcceptsTwoGroups ==
    txt_pc # "input" =>
        /\ txt_valid <=> TwoGroups(txt)
        /\ txt = TwoGroupsText => txt_valid
        /\ txt = InvalidText => ~txt_valid
        /\ txt = ThreeGroupsText => ~txt_valid

C5_Witness ==
    /\ txt_pc = "validated"
    /\ txt = TwoGroupsText
    /\ txt_valid

(***************************************************************************)
(* C6 (as stated): for an accepted text the parser yields the trimmed      *)
(* text before the first '(', the contents of the first group and the      *)
(* contents of the second group.                                           *)
(***************************************************************************)
C6_Stated ==
    (txt_pc = "parsed" /\ txt_valid) =>
        /\ txt_parsed = <<strip(BeforeGroups(txt)), Group1(txt), Group2(txt)>>
        /\ txt = ValidText1 =>
              txt_parsed = <<ElPerroCorre, TheDogRuns, ElPerro>>

(***************************************************************************)
(* C6 (amended): for an accepted text the parser yields the trimmed text   *)
(* before the first '(' with the "vertaalt naar ... voorbeeldzin ..."      *)
(* commentary removed, the trimmed contents of the first group, and the    *)
(* trimmed contents of the second group after the article rule; the        *)
(* example text yields the target word "De El perro".                      *)
(***************************************************************************)
C6_ParserFields ==
    (txt_pc = "parsed" /\ txt_valid) =>
        /\ Len(txt_parsed) = 3
        /\ txt_parsed[1] = strip(StripCommentary(strip(BeforeGroups(txt))))
        /\ ~contains(BeforeGroups(txt), Commentary1) =>
              txt_parsed[1] = strip(BeforeGroups(txt))
        /\ txt_parsed[2] = strip(Group1(txt))
        /\ txt_parsed[3] = strip(ArticleRule(Group2(txt)))
        /\ txt = ValidText1 =>
              txt_parsed = <<ElPerroCorre, TheDogRuns, DeElPerro>>

C6_Witness ==
    /\ txt_pc = "parsed"
    /\ txt_valid
    /\ txt = ValidText1
    /\ txt_parsed = <<ElPerroCorre, TheDogRuns, DeElPerro>>

(***************************************************************************)
(* C7 (as stated): the target word "Huis" comes out as "De Huis" and the   *)
(* target word "Het huis" comes out unchanged.                             *)
(***************************************************************************)
C7_Stated ==
    (txt_pc = "parsed" /\ txt_valid) =>
        /\ Group2(txt) = Huis => txt_parsed[3] = DeHuis
        /\ Group2(txt) = HetHuis => txt_parsed[3] = HetHuis

(***************************************************************************)
(* C7 (amended): the target word "Huis" is title-cased and comes out       *)
(* unchanged, the target word "huis" comes out as "De huis", and the       *)
(* target word "Het huis" comes out unchanged.                             *)
(***************************************************************************)
C7_ArticleExamples ==
    (txt_pc = "parsed" /\ txt_valid) =>
        /\ Group2(txt) = Huis => txt_parsed[3] = Huis
        /\ Group2(txt) = HuisLower => txt_parsed[3] = DeHuisLower
        /\ Group2(txt) = HetHuis => txt_parsed[3] = HetHuis

C7_Witness ==
    /\ txt_pc = "parsed"
    /\ txt_valid
    /\ Group2(txt) = Huis
    /\ txt_parsed[3] = Huis

(***************************************************************************)
(* C8 (as stated): every note of the deck has exactly four fields and      *)
(* each of them is a non-empty string.                                     *)
(***************************************************************************)
C8_Stated ==
    \A i \in 1..Len(deck) :
        /\ Len(deck[i]) = 4
        /\ \A k \in 1..4 : deck[i][k] \in Seq(Alphabet) /\ deck[i][k] # <<>>

(***************************************************************************)
(* C8 (amended): every note of the deck has exactly four fields, each a    *)
(* string; the source word and the target word are never empty, while the  *)
(* two example sentences are empty when the response starts with '(' or    *)
(* its first group holds only whitespace.                                  *)
(***************************************************************************)
C8_FourStringFields ==
    \A i \in 1..Len(deck) :
        /\ Len(deck[i]) = 4
        /\ \A k \in 1..4 : deck[i][k] \in Seq(Alphabet)
        /\ deck[i][1] # <<>>
        /\ deck[i][2] # <<>>

\* a note with both example sentences empty and the bare article for its
\* target word, and one from a failure path
C8_Witness ==
    /\ \E i \in 1..Len(deck) :
          deck[i][2] = Text("De") /\ deck[i][3] = <<>> /\ deck[i][4] = <<>>
    /\ \E i \in 1..Len(deck) : deck[i][2] = ParsingErrorText

(***************************************************************************)
(* C9: items are processed one at a time in input order: at most one       *)
(* request is in flight, every request, outcome and sleep of the item      *)
(* being worked on comes after the notes of all earlier items and before   *)
(* its own, and the notes are in the order of the items.                   *)
(***************************************************************************)
C9_Sequential ==
    /\ outstanding <= 1
    /\ (outstanding = 1) <=> (pc = "call")
    /\ pc \in {"attempt", "call", "add_note"} =>
          /\ Len(deck) = idx
          /\ \A i \in 1..Len(log) : log[i].item = Len(deck) + 1
    /\ Len(deck) <= Len(items)
    /\ \A k \in 1..Len(deck) : deck[k][1] = items[k]

\* a retry for the second item is in flight after a sleep, with the note of
\* the first item, a different word, in the deck
C9_Witness ==
    /\ pc = "call"
    /\ Len(deck) = 1
    /\ Len(SleepsIn(log)) >= 1
    /\ items[1] # items[2]

(***************************************************************************)
(* C10: started with the placeholder key, main exits with status 1 in its  *)
(* first step: no request is sent, the input file is not read, no note is  *)
(* made and no package is written.                                         *)
(***************************************************************************)
C10_PlaceholderKeyExits ==
    api_key = "openai_api_key" =>
        /\ pc \in {"check_api_key", "exited"}
        /\ pc = "exited" => exit_code = 1
        /\ log = <<>>
        /\ outstanding = 0
        /\ items = <<>>
        /\ deck = <<>>
        /\ ~written

C10_Witness ==
    /\ api_key = "openai_api_key"
    /\ pc = "exited"
    /\ exit_code = 1
    /\ NonBlankCount(input_file) >= 1

(***************************************************************************)
(* C11 (as stated): when the input file is missing or cannot be read to    *)
(* its end, parse_input_file returns the empty list without raising; the   *)
(* run sends no request, makes no note, writes a package with an empty     *)
(* deck and ends with status 0.                                            *)
(***************************************************************************)
C11_Stated ==
    ((~input_file.exists \/ ReadFails(input_file)) /\ api_key # "openai_api_key") =>
        /\ pc \in {"check_api_key", "parse_input_file", "next_item", "write", "done"}
        /\ items = <<>>
        /\ log = <<>>
        /\ outstanding = 0
        /\ deck = <<>>
        /\ exit_code \in {NoExit, 0}
        /\ written <=> pc = "done"
        /\ pc = "done" => (package = <<>> /\ exit_code = 0)

(***************************************************************************)
(* C11 (what the code keeps): when the input file is missing, or the read  *)
(* fails before the first line, parse_input_file returns the empty list    *)
(* without raising; the run sends no request, makes no note, writes a      *)
(* package with an empty deck and ends with status 0.                      *)
(***************************************************************************)
C11_MissingFileEmptyDeck ==
    ((~input_file.exists \/ (ReadFails(input_file) /\ input_file.read = 0))
        /\ api_key # "openai_api_key") =>
        /\ pc \in {"check_api_key", "parse_input_file", "next_item", "write", "done"}
        /\ items = <<>>
        /\ log = <<>>
        /\ outstanding = 0
        /\ deck = <<>>
        /\ exit_code \in {NoExit, 0}
        /\ written <=> pc = "done"
        /\ pc = "done" => (package = <<>> /\ exit_code = 0)

C11_Witness ==
    /\ ~input_file.exists
    /\ pc = "done"
    /\ written
    /\ package = <<>>
    /\ exit_code = 0

\* every request of the current item returned a text that failed validation
AllInvalid(l) ==
    /\ Len(ResultsIn(l)) > 0
    /\ \A i \in 1..Len(ResultsIn(l)) : ResultsIn(l)[i].ev = "invalid_format"

(***************************************************************************)
(* C14: a response that fails validation is followed by the next request   *)
(* with no sleep in between; a sleep comes only directly after a           *)
(* RateLimitError; an item whose three responses all fail validation has   *)
(* made 3 requests and slept not at all when the sentinel is returned.     *)
(***************************************************************************)
C14_NoBackoffOnInvalidFormat ==
    /\ \A i \in 1..Len(log) :
          /\ log[i].ev = "sleep" => (i > 1 /\ log[i - 1].ev = "RateLimitError")
          /\ (log[i].ev = "invalid_format" /\ i < Len(log)) => log[i + 1].ev = "call"
    /\ (pc = "add_note" /\ AllInvalid(log)) =>
          /\ KindsOf(log) = <<"call", "invalid_format", "call", "invalid_format",
                              "call", "invalid_format">>
          /\ translation = NotAvailable

C14_Witness ==
    /\ pc = "add_note"
    /\ AllInvalid(log)
    /\ Len(CallsIn(log)) = 3
    /\ SleepsIn(log) = <<>>

\* t is one of the whitespace-separated words of w, case ignored
HasToken(w, t) ==
    LET lw == lower(w)
    IN  \E i \in 1..Len(lw) :
           /\ OccursAt(lw, t, i, Len(lw) + 1)
           /\ (i = 1 \/ CharAt(lw, i - 1) \in Whitespace)
           /\ (i + Len(t) > Len(lw) \/ CharAt(lw, i + Len(t)) \in Whitespace)

\* the parser put the article in front of the second group
ArticlePrepended == txt_parsed[3] = strip(DeArticle \o Group2(txt))

(***************************************************************************)
(* C15 (as stated): the article is prepended exactly when the target word  *)
(* is not title-cased and has neither "de" nor "het" among its words; a    *)
(* word such as "modelo", with "de" only inside it, gets the article.      *)
(***************************************************************************)
C15_Stated ==
    (txt_pc = "parsed" /\ txt_valid) =>
        /\ ArticlePrepended <=>
              /\ ~istitle(Group2(txt))
              /\ ~HasToken(Group2(txt), De)
              /\ ~HasToken(Group2(txt), Het)
        /\ Group2(txt) = Modelo => txt_parsed[3] = DeModelo

(***************************************************************************)
(* C15 (amended): the article is prepended exactly when the target word is *)
(* not title-cased and its lower-cased text contains neither "de" nor      *)
(* "het" anywhere, inside a word included; "modelo" contains "de" and      *)
(* comes out unchanged.                                                    *)
(***************************************************************************)
C15_ArticleBySubstring ==
    (txt_pc = "parsed" /\ txt_valid) =>
        /\ ArticlePrepended <=>
              /\ ~istitle(Group2(txt))
              /\ \A i \in 1..(Len(Group2(txt)) - 1) :
                    lower(SubSeq(Group2(txt), i, i + 1)) # De
              /\ \A i \in 1..(Len(Group2(txt)) - 2) :
                    lower(SubSeq(Group2(txt), i, i + 2)) # Het
        /\ ~ArticlePrepended => txt_parsed[3] = strip(Group2(txt))
        /\ Group2(txt) = Modelo => txt_parsed[3] = Modelo

C15_Witness ==
    /\ txt_pc = "parsed"
    /\ txt_valid
    /\ Group2(txt) = Modelo
    /\ txt_parsed[3] = Modelo

(***************************************************************************)
(* C16: the two kinds of failure share one attempt counter: an item never  *)
(* gets more than 3 requests, the k-th request carries attempt index       *)
(* k - 1 whatever failed before it, a RateLimitError at index 0 or 1 is    *)
(* followed by a sleep of 1 or 2 (two to the power of the index), and one  *)
(* at index 2 is the last event of the item, with no sleep.                *)
(***************************************************************************)
C16_SharedAttemptCounter ==
    /\ Len(CallsIn(log)) <= 3
    /\ \A k \in 1..Len(CallsIn(log)) : CallsIn(log)[k].n = k - 1
    /\ \A i \in 1..Len(log) :
          /\ log[i].ev \in {"RateLimitError", "invalid_format", "valid"} =>
                (log[i - 1].ev = "call" /\ log[i - 1].n = log[i].n)
          /\ (log[i].ev = "RateLimitError" /\ log[i].n = 0) =>
                (log[i + 1].ev = "sleep" /\ log[i + 1].n = 1)
          /\ (log[i].ev = "RateLimitError" /\ log[i].n = 1) =>
                (log[i + 1].ev = "sleep" /\ log[i + 1].n = 2)
          /\ (log[i].ev = "RateLimitError" /\ log[i].n = 2) => i = Len(log)

\* the first rate limit of the item came on its second request, after an
\* invalid response, and was followed by a sleep of 2
C16_Witness ==
    /\ Len(log) >= 5
    /\ log[2].ev = "invalid_format"
    /\ log[4].ev = "RateLimitError"
    /\ log[5] = Event("sleep", idx + 1, 2)

(***************************************************************************)
(* C17: what get_word_translation_and_example returns is either a response *)
(* with two groups, accepted by the validator, or exactly the sentinel; an *)
(* accepted response is returned at once, as the last event of the item,   *)
(* and the sentinel only after three failed requests; a response that      *)
(* failed validation is never returned.                                    *)
(***************************************************************************)
C17_ReturnsValidOrSentinel ==
    /\ translation # <<>> =>
          \/ translation = NotAvailable
          \/ TwoGroups(translation)
    /\ \A i \in 1..Len(log) : log[i].ev = "valid" => i = Len(log)
    /\ pc = "add_note" =>
          /\ TwoGroups(translation) <=> log[Len(log)].ev = "valid"
          /\ translation = NotAvailable
                <=> Len(FailuresIn(log)) = 3
          /\ \E content \in ModelTexts \cup {NotAvailable} :
                translation = strip(content)

\* an accepted response returned on the second request, after a rejected one
C17_Witness ==
    /\ pc = "add_note"
    /\ KindsOf(log) = <<"call", "invalid_format", "call", "valid">>
    /\ TwoGroups(translation)

(***************************************************************************)
(* C18: for a text the validator accepts the parser never returns the      *)
(* sentinel triple, so a parse that returned it was of a text the          *)
(* validator rejects; for every text the parser returns three strings.     *)
(***************************************************************************)
C18_NoParseFailureOnValidText ==
    txt_pc = "parsed" =>
        /\ Len(txt_parsed) = 3
        /\ \A k \in 1..3 : txt_parsed[k] \in Seq(Alphabet)
        /\ txt_valid =>
              txt_parsed # ParsingError
        /\ txt_parsed = ParsingError =>
              ~TwoGroups(txt)

\* the accepted text closest to the sentinel triple: its target word gets
\* the article
C18_Witness ==
    /\ txt_pc = "parsed"
    /\ txt_valid
    /\ txt = ParsingErrorLookalike
    /\ txt_parsed = <<ParsingErrorText, ParsingErrorText, DeParsingError>>

(***************************************************************************)
(* C19 (as stated): the note of an item that used up its budget is the     *)
(* item with "Parsing error" three times, and the sentinel string of the   *)
(* controller appears in no field of any note.                             *)
(***************************************************************************)
C19_Stated ==
    \A i \in 1..Len(deck) :
        /\ outcomes[i] # "validated" =>
              deck[i] = <<items[i], ParsingErrorText, ParsingErrorText, ParsingErrorText>>
        /\ \A k \in 1..4 : deck[i][k] # NotAvailable

(***************************************************************************)
(* C19 (amended): the note of an item that used up its budget is the item  *)
(* with "Parsing error" three times: the sentinel string fails extraction  *)
(* and reaches none of the three fields taken from the response.  The      *)
(* source word is the input line, and it is the sentinel string when the   *)
(* line is that text.                                                      *)
(***************************************************************************)
C19_ExhaustedItemIsParsingError ==
    /\ Len(outcomes) >= Len(deck)
    /\ \A i \in 1..Len(deck) :
          outcomes[i] # "validated" =>
              /\ deck[i] = <<items[i], ParsingErrorText, ParsingErrorText, ParsingErrorText>>
              /\ \A k \in 2..4 : deck[i][k] # NotAvailable

\* notes of items that ran out after the loop and in the handler
C19_Witness ==
    /\ pc = "done"
    /\ \E i, j \in 1..Len(package) :
          /\ outcomes[i] = "exhausted_after_loop"
          /\ outcomes[j] = "exhausted_rate_limit"
          /\ package[i][2] = ParsingErrorText
          /\ package[j][2] = ParsingErrorText

(***************************************************************************)
(* Runs in which every request returns a text or raises RateLimitError.    *)
(* The program is one thread that runs on after every statement, and each  *)
(* request is answered: the thread never stops before the program ends.    *)
(***************************************************************************)
LiveNext ==
    \/ CheckApiKey
    \/ ParseInputFile
    \/ NextItem
    \/ ReturnDeck
    \/ SendRequest
    \/ LoopExhausted
    \/ \E content \in ModelTexts : ReceiveText(content)
    \/ ReceiveException("RateLimitError")
    \/ AddNote
    \/ WritePackage

\* The thread is at a statement of the program and moves on to another one.
\* Every step of the run moves pc, and some step is possible wherever the
\* program has not ended, so fairness of this action is fairness of LiveNext.
PcValues == {"check_api_key", "parse_input_file", "next_item", "attempt",
             "call", "add_note", "write", "done", "exited", "aborted"}
Ended == pc \in {"done", "exited", "aborted"}
MovesOn == ~Ended /\ pc' \in PcValues /\ pc' # pc

LiveSpec == Init /\ [][LiveNext]_vars /\ WF_pc(MovesOn)

(***************************************************************************)
(* C12: with a valid key and requests that return a text or raise          *)
(* RateLimitError, the run ends with status 0 and the package written      *)
(* after the last item, however many items used up their budget; an item   *)
(* gets at most 3 requests and at most 2 sleeps.                           *)
(***************************************************************************)
C12_Terminates ==
    /\ [](/\ Len(CallsIn(log)) <= 3
          /\ Len(SleepsIn(log)) <= 2
          /\ written => (pc = "done" /\ idx = Len(items) /\ package = deck))
    /\ (api_key # "openai_api_key") =>
          <>(pc = "done" /\ exit_code = 0 /\ written /\ Len(package) = Len(items))

\* the run ended well although every one of its items used up its budget
C12_Witness ==
    /\ pc = "done"
    /\ exit_code = 0
    /\ Len(package) >= 2
    /\ \A i \in 1..Len(outcomes) : outcomes[i] # "validated"


(***************************************************************************)
(* The run repeated: main is run, and then run again on the same input     *)
(* file with the same credential, against a stubbed model client that      *)
(* answers the same thing whenever it is asked about the same position of  *)
(* the item list at the same attempt.  The stub is revealed as it is       *)
(* asked: the first request for a position and attempt draws its answer, a *)
(* later one gets that answer again.  Only the random ids of the deck and  *)
(* the model are drawn afresh in each run.                                 *)
(***************************************************************************)
MaxRerunLines == 2

\* `random.randint(1, 1 << 30)`: two of the values
DeckIds == {1, 2}

\* lines of the input file of a repeated run
RerunLines == {Text("hola") \o <<160>>, <<11, 32>>}

RerunFiles == {NoFile} \cup FilesOf(RerunLines, MaxRerunLines)

\* a text the client may return that reads like the name of an exception
ReturnedName == Text("RateLimitError")

\* what the stubbed client may do with a request: return a text that passes
\* or fails the validation, or raise an exception that is handled or not
Returns(content) == [raises |-> FALSE, value |-> content]
Raises(exc) == [raises |-> TRUE, value |-> exc]
StubOutcomes == {Returns(ValidText1), Returns(ReturnedName),
                 Raises("RateLimitError"), Raises("APIConnectionError")}

StubKey(e) == <<e.item, e.attempt>>
Stubbed(item, a) == \E e \in stub : StubKey(e) = <<item, a>>
StubAnswer(item, a) == (CHOOSE e \in stub : StubKey(e) = <<item, a>>).outcome

DetInit ==
    /\ pc = "check_api_key"
    /\ api_key \in ApiKeys
    /\ input_file \in RerunFiles
    /\ items = <<>>
    /\ idx = 0
    /\ attempt = 0
    /\ log = <<>>
    /\ outstanding = 0
    /\ translation = <<>>
    /\ outcomes = <<>>
    /\ deck = <<>>
    /\ written = FALSE
    /\ package = <<>>
    /\ exit_code = NoExit
    /\ TxtIdle
    /\ deck_id \in DeckIds
    /\ stub = {}
    /\ run = 1
    /\ first_run = NoRun

\* the request returns or raises what the stub holds for it
Answered(outcome) ==
    IF outcome.raises THEN ExceptionRaised(outcome.value)
    ELSE TextReceived(outcome.value)

StubAnswers ==
    /\ pc = "call"
    /\ IF Stubbed(idx + 1, attempt)
       THEN /\ Answered(StubAnswer(idx + 1, attempt))
            /\ UNCHANGED stub
       ELSE \E outcome \in StubOutcomes :
                /\ Answered(outcome)
                /\ stub' = stub \cup {[item |-> idx + 1, attempt |-> attempt,
                                      outcome |-> outcome]}
    /\ UNCHANGED <<deck_id, run, first_run>>

\* the process has ended; main is started again on the same file
Rerun ==
    /\ run = 1
    /\ pc \in {"done", "exited", "aborted"}
    /\ run' = 2
    /\ first_run' = [pc |-> pc, deck |-> deck, deck_id |-> deck_id]
    /\ deck_id' \in DeckIds
    /\ pc' = "check_api_key"
    /\ items' = <<>>
    /\ idx' = 0
    /\ attempt' = 0
    /\ log' = <<>>
    /\ outstanding' = 0
    /\ translation' = <<>>
    /\ outcomes' = <<>>
    /\ deck' = <<>>
    /\ written' = FALSE
    /\ package' = <<>>
    /\ exit_code' = NoExit
    /\ UNCHANGED <<api_key, input_file, stub, txt_vars>>

DetNext ==
    \/ CheckApiKey \/ ParseInputFile \/ NextItem \/ ReturnDeck \/ SendRequest
    \/ LoopExhausted
    \/ StubAnswers
    \/ AddNote \/ WritePackage
    \/ Rerun

DetSpec == DetInit /\ [][DetNext]_vars

IsPrefix(s, t) == Len(s) <= Len(t) /\ SubSeq(t, 1, Len(s)) = s

\* C13: a run repeated on the same input file against the same stubbed
\* client makes the same card records in the same order: while it runs its
\* deck is an initial part of the deck of the first run, it ends as the first
\* run ended, and then its deck, and the package it wrote, hold exactly the
\* notes of the first run.
C13_RepeatedRunSameCards ==
    run = 2 =>
        /\ IsPrefix(deck, first_run.deck)
        /\ Ended =>
              /\ pc = first_run.pc
              /\ deck = first_run.deck
              /\ pc = "done" => package = first_run.deck

\* a repeated run has written at least two cards, one of them from a
\* validated response and one for an exhausted item, under another deck id
C13_Witness ==
    /\ run = 2 /\ pc = "done" /\ written
    /\ Len(package) >= 2
    /\ first_run.deck_id # deck_id
    /\ \E i, j \in 1..Len(outcomes) :
          outcomes[i] = "validated" /\ outcomes[j] # "validated"
    /\ package[1] # package[2]

====
